---- MODULE Spec2Model ----
(***************************************************************************)
(* Model of app.py: the weather table (SQLite), the Open-Meteo fetch, the  *)
(* batch upsert, the trailing-48-hour query and the three Flask routes.    *)
(*                                                                         *)
(* Instants are whole hours since an epoch.  A stored timestamp is the     *)
(* fixed-width text that strftime produces, modelled as a sequence of      *)
(* decimal digits and compared the way SQLite compares TEXT (byte by byte).*)
(* The surrogate column "id" is never selected nor compared by the         *)
(* program, so a table is the set of its rows without it.                  *)
(***************************************************************************)
EXTENDS Integers, Sequences, FiniteSets, TLC

VARIABLES db, resp, req, wdb, lock

vars == <<db, resp, req, wdb, lock>>

\* ------------------------------------------------------------------ bounds
\* longest hourly array in an upstream payload
MaxLen == 2
\* instants and longest array of the single-coordinate re-ingest scenario
ScenSlots == 5
ScenLen == 3

\* ------------------------------------------------------- program constants
\* timedelta(hours=48)
WindowHours == 48
\* pandas' missing timestamp (a JSON null in "time")
NaT == -1

HalfWindow == WindowHours \div 2

\* the hours a payload may carry: one window and one and a half after the epoch
Instants == {WindowHours, WindowHours + HalfWindow}
\* wall-clock readings of datetime.now(timezone.utc): with both instants ahead
\* or current, both inside the window, one behind it, both behind it
Clock == {WindowHours, 2 * WindowHours, 2 * WindowHours + HalfWindow, 3 * WindowHours}
ScenClock == {2 * WindowHours}
ScenInstants == {HalfWindow * (k + 1) : k \in 1..ScenSlots}

\* request.args.get(...): the raw text, "" standing for a missing parameter
LatArgs == {"52", "53", "", "abc"}
LonArgs == {"13", "abc"}
ConcLatArgs == {"52"}
ConcLonArgs == {"13"}
ScenLatArgs == {"52"}
ScenLonArgs == {"13"}

\* a payload carries one reading pair on every hour
Temps == <<10, 20>>
Hums == <<51, 52>>
Versions == 1..2

\* the threads serving requests, and the write lock's value when it is free
Handlers == {"t1", "t2"}
NoHandler == "none"

\* ------------------------------------------------------------- timestamps
\* strftime("%Y-%m-%dT%H:%M:%SZ"): fixed width, zero padded
Strftime(t) == <<t \div 100, (t \div 10) % 10, t % 10>>

\* parse_dates=["timestamp"]
Strptime(s) == 100 * s[1] + 10 * s[2] + s[3]

RECURSIVE TextLess(_, _)
\* SQLite BINARY collation on TEXT
TextLess(a, b) ==
    IF b = <<>> THEN FALSE
    ELSE IF a = <<>> THEN TRUE
    ELSE IF Head(a) # Head(b) THEN Head(a) < Head(b)
    ELSE TextLess(Tail(a), Tail(b))

TextGE(a, b) == ~TextLess(a, b)

\* ------------------------------------------------------------------ table
Key(r) == <<r.timestamp, r.latitude, r.longitude>>

Keys(tbl) == {Key(r) : r \in tbl}

\* a plain INSERT into a table without the UNIQUE constraint
InsertOnly(tbl, r) == tbl \cup {r}

\* a UNIQUE constraint that leaves the timestamp out
InsertOrReplaceByCoord(tbl, r) ==
    {x \in tbl : <<x.latitude, x.longitude>> # <<r.latitude, r.longitude>>} \cup {r}

\* an upsert that updates the temperature and keeps the stored humidity
InsertOrMerge(tbl, r) ==
    LET old == {x \in tbl : Key(x) = Key(r)}
    IN  IF old = {} THEN tbl \cup {r}
        ELSE (tbl \ old) \cup
             {[x EXCEPT !.temperature_2m = r.temperature_2m] : x \in old}

\* INSERT OR REPLACE under UNIQUE (timestamp, latitude, longitude)
InsertOrReplace(tbl, r) == {x \in tbl : Key(x) # Key(r)} \cup {r}

\* the parameter tuple of cur.execute
ToDbRow(row) ==
    [timestamp |-> Strftime(row.timestamp),
     temperature_2m |-> row.temperature_2m,
     relative_humidity_2m |-> row.relative_humidity_2m,
     latitude |-> row.latitude,
     longitude |-> row.longitude]

\* row["timestamp"].strftime raises on NaT
RowRaises(row) == row.timestamp = NaT

\* a context manager that commits whatever was executed
ConnExitNoRollback(committed, working, ok) == working

\* sqlite3.Connection.__exit__: commit, or roll back when the body raised
ConnExit(committed, working, ok) == IF ok THEN working ELSE committed

\* The connection after its with block.  __exit__ does not close it; it is
\* closed when the object is reclaimed, which a raised exception's traceback
\* delays and which is otherwise up to the interpreter.
ConnAfterWith(raised) == IF raised THEN {"open"} ELSE {"open", "closed"}

RECURSIVE UpsertLoop(_, _, _)
\* for _, row in df.iterrows(): cur.execute(...); rows += 1
UpsertLoop(working, df, i) ==
    IF i > Len(df) THEN [exc |-> "none", tbl |-> working, rows |-> Len(df)]
    ELSE IF RowRaises(df[i]) THEN [exc |-> "ValueError", tbl |-> working, rows |-> i - 1]
    ELSE UpsertLoop(InsertOrReplace(working, ToDbRow(df[i])), df, i + 1)

upsert_records(tbl, df) ==
    LET r == UpsertLoop(tbl, df, 1)
    IN  [exc |-> r.exc, rows |-> r.rows, tbl |-> ConnExit(tbl, r.tbl, r.exc = "none")]

\* ------------------------------------------------------------------ fetch
Min(a, b) == IF a < b THEN a ELSE b

\* sort key of sort_values("timestamp"): NaT goes last
SortKey(t) == IF t = NaT THEN HalfWindow * 1000 ELSE t

RECURSIVE InsertSorted(_, _)
InsertSorted(s, r) ==
    IF s = <<>> THEN <<r>>
    ELSE IF SortKey(r.timestamp) < SortKey(Head(s).timestamp) THEN <<r>> \o s
    ELSE <<Head(s)>> \o InsertSorted(Tail(s), r)

RECURSIVE SortValues(_)
SortValues(s) ==
    IF s = <<>> THEN <<>>
    ELSE InsertSorted(SortValues(SubSeq(s, 1, Len(s) - 1)), s[Len(s)])

\* a check that only looks for empty arrays
HourlyPresent(times, temps, hums) == times # <<>> /\ temps # <<>> /\ hums # <<>>

\* `if not (times and temps and hums)` and the DataFrame constructor's
\* "All arrays must be of the same length"
HourlyOk(times, temps, hums) ==
    /\ times # <<>> /\ temps # <<>> /\ hums # <<>>
    /\ Len(temps) = Len(times) /\ Len(hums) = Len(times)

Frame(times, temps, hums, lat, lon) ==
    LET n == Min(Len(times), Min(Len(temps), Len(hums)))
    IN  SortValues([i \in 1..n |->
            [timestamp |-> times[i], temperature_2m |-> temps[i],
             relative_humidity_2m |-> hums[i], latitude |-> lat, longitude |-> lon]])

\* the exception requests.get / raise_for_status raises for an outcome
RequestExc(up) ==
    CASE up.kind = "timeout" -> "Timeout"
      [] up.kind = "connection" -> "ConnectionError"
      [] up.kind = "status" -> "HTTPError"
      [] OTHER -> "none"

fetch_open_meteo(lat, lon, up) ==
    IF RequestExc(up) # "none" THEN [exc |-> RequestExc(up), df |-> <<>>]
    ELSE IF ~HourlyOk(up.time, up.temperature_2m, up.relative_humidity_2m)
         THEN [exc |-> "ValueError", df |-> <<>>]
    ELSE [exc |-> "none",
          df |-> Frame(up.time, up.temperature_2m, up.relative_humidity_2m, lat, lon)]

\* except requests.HTTPError -> 502; except Exception -> 500
StatusOf(exc) ==
    IF exc = "none" THEN 200 ELSE IF exc = "HTTPError" THEN 502 ELSE 500

\* float(request.args.get(...)) raises TypeError on None, ValueError on text
Numeric == ("52" :> 52) @@ ("53" :> 53) @@ ("13" :> 13)

FloatOk(a) == a \in DOMAIN Numeric

Float(a) == Numeric[a]

\* ------------------------------------------------------------------ query
\* WHERE timestamp >= ?
QuerySince(tbl, cutoff) == {r \in tbl : TextGE(r.timestamp, cutoff)}

RECURSIVE Ascending(_)
\* ORDER BY timestamp ASC: every order of the rows that ascends by timestamp
\* (SQL leaves the order of equal timestamps open)
Ascending(S) ==
    IF S = {} THEN {<<>>}
    ELSE LET firsts == {r \in S : \A x \in S : ~TextLess(x.timestamp, r.timestamp)}
         IN  UNION {{<<r>> \o s : s \in Ascending(S \ {r})} : r \in firsts}

ParseDates(s) == [i \in 1..Len(s) |-> [s[i] EXCEPT !.timestamp = Strptime(s[i].timestamp)]]

query_last_48h(tbl, now) ==
    {ParseDates(s) : s \in Ascending(QuerySince(tbl, Strftime(now - WindowHours)))}

\* a check that never reports an empty frame
NeverEmpty(df) == FALSE

\* df.empty
DfEmpty(df) == Len(df) = 0

\* -------------------------------------------------------------- responses
\* What the latest step answered and did, for the properties to read:
\*   op, status, body  the route (or init_db), its status code and body kind
\*   stage, exc        where the request ended and the exception raised there
\*   hourly            lengths of the payload's time, temperature_2m and
\*                     relative_humidity_2m arrays (<<>>: no payload arrived)
\*   df, executed      the fetched frame and how many of its rows were executed
\*   replaced          how many executed keys were stored before
\*   rows, now, file   an export's query result, clock reading and attachment
\*   conn              the operation's connection once the operation has ended
NoResp ==
    [op |-> "none", status |-> 0, body |-> "none", stage |-> "none",
     exc |-> "none", hourly |-> <<>>, df |-> <<>>,
     executed |-> 0, replaced |-> 0, rows |-> <<>>, now |-> 0,
     file |-> FALSE, conn |-> "none"]

\* how many keys of the executed rows were stored before the batch
Replaced(tbl, df) ==
    Cardinality({Key(ToDbRow(df[i])) : i \in 1..Len(df)} \cap Keys(tbl))

\* --------------------------------------------------------------- upstream
Const(v, n) == [i \in 1..n |-> v]

\* "time" arrays in any order, an hour at most once, null standing for NaT
TimeSeqs(instants, maxlen) ==
    UNION {{s \in [1..n -> instants \cup {NaT}] :
               \A i, j \in 1..n : s[i] = s[j] => i = j} : n \in 1..maxlen}

Json(times, temps, hums) ==
    [kind |-> "json", time |-> times, temperature_2m |-> temps,
     relative_humidity_2m |-> hums]

Failure(kind) ==
    [kind |-> kind, time |-> <<>>, temperature_2m |-> <<>>,
     relative_humidity_2m |-> <<>>]

Failures == {Failure("timeout"), Failure("connection"), Failure("status")}

\* aligned payloads
Aligned(instants, maxlen) ==
    {Json(ts, Const(Temps[v], Len(ts)), Const(Hums[v], Len(ts))) :
        ts \in TimeSeqs(instants, maxlen), v \in Versions}

\* payloads with a missing, empty or short array
Misaligned(instants, maxlen) ==
    {Json(Const(t, a), Const(Temps[1], b), Const(Hums[1], c)) :
        t \in instants, a \in 0..maxlen, b \in 0..maxlen, c \in 0..maxlen}
    \ Aligned(instants, maxlen)

Upstreams == Failures \cup Aligned(Instants, MaxLen) \cup Misaligned({WindowHours}, MaxLen)

ConcUpstreams == Failures \cup Aligned(Instants, MaxLen)

\* consecutive hours, as the upstream sends them
Runs(instants, maxlen) ==
    {[i \in 1..n |-> t + HalfWindow * (i - 1)] : t \in instants, n \in 1..maxlen}

ScenUpstreams ==
    Failures \cup
    {Json(ts, Const(Temps[v], Len(ts)), Const(Hums[v], Len(ts))) :
        ts \in {r \in Runs(ScenInstants, ScenLen) : \A i \in 1..Len(r) : r[i] \in ScenInstants},
        v \in Versions}

\* ------------------------------------------------------------------- init
Idle == [pc |-> "idle", df |-> <<>>, hourly |-> <<>>, i |-> 0]

\* init_db() has run at import on a new file; no request has been served
Init ==
    /\ db = {}
    /\ wdb = {}
    /\ lock = NoHandler
    /\ req = [p \in Handlers |-> Idle]
    /\ resp = NoResp

\* ---------------------------------------------------------------- actions
\* the module is imported again (a restart): init_db keeps the stored rows
init_db ==
    /\ \E c \in ConnAfterWith(FALSE) :
         resp' = [NoResp EXCEPT !.op = "init_db", !.stage = "done", !.conn = c]
    /\ UNCHANGED <<db, req, wdb, lock>>

\* the JSON summary or error of /weather-report once the upsert has ended
UpsertResponse(tbl, df, hourly, exc, executed, c) ==
    [NoResp EXCEPT !.op = "weather_report",
        !.status = StatusOf(exc),
        !.body = IF exc = "none" THEN "summary" ELSE "error",
        !.stage = IF exc = "none" THEN "done" ELSE "upsert",
        !.exc = exc,
        !.hourly = hourly,
        !.df = df,
        !.executed = executed,
        !.replaced = Replaced(tbl, SubSeq(df, 1, executed)),
        !.conn = c]

\* the lengths of the three hourly arrays of a payload that arrived
Hourly(up) ==
    IF RequestExc(up) # "none" THEN <<>>
    ELSE <<Len(up.time), Len(up.temperature_2m), Len(up.relative_humidity_2m)>>

\* the error response of a request whose fetch raised
FetchErrorResponse(exc, up) ==
    [NoResp EXCEPT !.op = "weather_report", !.status = StatusOf(exc),
                   !.body = "error", !.stage = "fetch", !.exc = exc,
                   !.hourly = Hourly(up)]

\* the 400 of a request without numeric lat and lon
BadArgsResponse ==
    [NoResp EXCEPT !.op = "weather_report", !.status = 400, !.body = "error",
                   !.stage = "args", !.exc = "ValueError"]

\* GET /weather-report, one request from start to response
weather_report(latArgs, lonArgs, upstreams) ==
    /\ \E lat \in latArgs, lon \in lonArgs :
         IF ~(FloatOk(lat) /\ FloatOk(lon))
         THEN /\ resp' = BadArgsResponse
              /\ db' = db
         ELSE \E up \in upstreams :
              \E f \in {fetch_open_meteo(Float(lat), Float(lon), up)} :
                  IF f.exc # "none"
                  THEN /\ resp' = FetchErrorResponse(f.exc, up)
                       /\ db' = db
                  ELSE \E u \in {upsert_records(db, f.df)} :
                       /\ db' = u.tbl
                       /\ \E c \in ConnAfterWith(u.exc # "none") :
                            resp' = UpsertResponse(db, f.df, Hourly(up), u.exc, u.rows, c)
    /\ wdb' = db'
    /\ UNCHANGED <<req, lock>>

\* the response of an export whose window query returned df
ExportResponse(name, df, now, rendered, c) ==
    [NoResp EXCEPT !.op = name,
        !.status = IF DfEmpty(df) THEN 400 ELSE IF rendered THEN 200 ELSE 500,
        !.body = IF DfEmpty(df) \/ ~rendered THEN "error" ELSE "file",
        !.stage = "done",
        !.exc = IF DfEmpty(df) \/ rendered THEN "none" ELSE "Exception",
        !.rows = df, !.now = now,
        !.file = ~DfEmpty(df) /\ rendered,
        !.conn = c]

\* GET /export/excel and GET /export/pdf up to the rendering, which either
\* produces the file or raises
Export(name, clock) ==
    /\ \E now \in clock :
       \E df \in query_last_48h(db, now), c \in ConnAfterWith(FALSE) :
       \E rendered \in IF DfEmpty(df) THEN {TRUE} ELSE BOOLEAN :
         resp' = ExportResponse(name, df, now, rendered, c)
    /\ UNCHANGED <<db, req, wdb, lock>>

export_excel(clock) == Export("export_excel", clock)

export_pdf(clock) == Export("export_pdf", clock)

Next ==
    \/ init_db
    \/ weather_report(LatArgs, LonArgs, Upstreams)
    \/ export_excel(Clock)
    \/ export_pdf(Clock)

Spec == Init /\ [][Next]_vars

NextScenario ==
    \/ init_db
    \/ weather_report(ScenLatArgs, ScenLonArgs, ScenUpstreams)
    \/ export_excel(ScenClock)
    \/ export_pdf(ScenClock)

SpecScenario == Init /\ [][NextScenario]_vars

\* ------------------------------------------- interleaved /weather-report
\* Requests served by concurrent threads.  Each has its own connection; the
\* rows a connection has executed stay in its transaction (wdb) until its
\* commit, and SQLite lets one connection write at a time.

\* the request up to the end of fetch_open_meteo
ConcFetch(p) ==
    /\ req[p].pc = "idle"
    /\ \E lat \in ConcLatArgs, lon \in ConcLonArgs, up \in ConcUpstreams :
       \E f \in {fetch_open_meteo(Float(lat), Float(lon), up)} :
         IF f.exc # "none"
         THEN /\ resp' = FetchErrorResponse(f.exc, up)
              /\ req' = req
         ELSE /\ resp' = NoResp
              /\ req' = [req EXCEPT ![p] = [pc |-> "upsert", df |-> f.df,
                                             hourly |-> Hourly(up), i |-> 1]]
    /\ UNCHANGED <<db, wdb, lock>>

\* one cur.execute of the loop: the first takes the write lock
ConcExecute(p) ==
    /\ req[p].pc = "upsert"
    /\ req[p].i <= Len(req[p].df)
    /\ ~RowRaises(req[p].df[req[p].i])
    /\ lock \in {NoHandler, p}
    /\ wdb' = InsertOrReplace(wdb, ToDbRow(req[p].df[req[p].i]))
    /\ lock' = p
    /\ req' = [req EXCEPT ![p].i = @ + 1]
    /\ resp' = NoResp
    /\ db' = db

\* a row whose parameters cannot be built: the with block rolls back
ConcRaise(p) ==
    /\ req[p].pc = "upsert"
    /\ req[p].i <= Len(req[p].df)
    /\ RowRaises(req[p].df[req[p].i])
    /\ db' = IF lock = p THEN ConnExit(db, wdb, FALSE) ELSE db
    /\ wdb' = IF lock = p THEN db' ELSE wdb
    /\ lock' = IF lock = p THEN NoHandler ELSE lock
    /\ \E c \in ConnAfterWith(TRUE) :
         resp' = UpsertResponse(db, req[p].df, req[p].hourly, "ValueError",
                                req[p].i - 1, c)
    /\ req' = [req EXCEPT ![p] = Idle]

\* the first cur.execute while another connection holds the write lock:
\* "database is locked" once the busy timeout has passed
ConcBusy(p) ==
    /\ req[p].pc = "upsert"
    /\ req[p].i <= Len(req[p].df)
    /\ ~RowRaises(req[p].df[req[p].i])
    /\ lock \notin {NoHandler, p}
    /\ \E c \in ConnAfterWith(TRUE) :
         resp' = UpsertResponse(db, req[p].df, req[p].hourly, "OperationalError", 0, c)
    /\ req' = [req EXCEPT ![p] = Idle]
    /\ UNCHANGED <<db, wdb, lock>>

\* conn.commit() and the response
ConcCommit(p) ==
    /\ req[p].pc = "upsert"
    /\ req[p].i > Len(req[p].df)
    /\ lock = p
    /\ db' = ConnExit(db, wdb, TRUE)
    /\ wdb' = db'
    /\ lock' = NoHandler
    /\ \E c \in ConnAfterWith(FALSE) :
         resp' = UpsertResponse(db, req[p].df, req[p].hourly, "none",
                                Len(req[p].df), c)
    /\ req' = [req EXCEPT ![p] = Idle]

NextConc ==
    \E p \in Handlers :
        \/ ConcFetch(p)
        \/ ConcExecute(p)
        \/ ConcRaise(p)
        \/ ConcBusy(p)
        \/ ConcCommit(p)

SpecConc == Init /\ [][NextConc]_vars

\* ------------------------------------------------------------- properties
ExportOps == {"export_excel", "export_pdf"}

Range(s) == {s[i] : i \in 1..Len(s)}

\* the rows of a frame as the table stores them
BatchRows(df) == {ToDbRow(df[i]) : i \in 1..Len(df)}

Ingested == resp.op = "weather_report" /\ resp.status = 200

\* C1: no two stored rows share (timestamp, latitude, longitude).
C1_KeyUniqueness == \A a, b \in db : Key(a) = Key(b) => a = b

\* a stored key was written again while the same hour is stored for two
\* coordinates
C1_Witness ==
    /\ Ingested /\ resp.replaced >= 1
    /\ \E a, b \in db : a.timestamp = b.timestamp /\ a.latitude # b.latitude

\* C2: after an upsert, each key of the batch has exactly one stored row, and
\* that row is the batch's row in full (its temperature and its humidity).
C2_LastWriteWins ==
    Ingested =>
        \A r \in BatchRows(resp.df) : {x \in db : Key(x) = Key(r)} = {r}

\* every key of a two-row batch was stored before the batch
C2_Witness == Ingested /\ Len(resp.df) = 2 /\ resp.replaced = 2

\* the rows the claim's window [now - 48h, now] holds at clock reading now
ClaimedWindow(tbl, now) ==
    {r \in tbl : /\ now - WindowHours <= Strptime(r.timestamp)
                 /\ Strptime(r.timestamp) <= now}

\* C3: the window query returns exactly the stored rows with timestamp in
\* [now - 48h, now], in ascending timestamp order.
C3_WindowBothBounds ==
    resp.op \in ExportOps =>
        /\ Range(resp.rows) =
              {[r EXCEPT !.timestamp = Strptime(@)] : r \in ClaimedWindow(db, resp.now)}
        /\ Len(resp.rows) = Cardinality(ClaimedWindow(db, resp.now))
        /\ \A i, j \in 1..Len(resp.rows) :
               i < j => resp.rows[i].timestamp <= resp.rows[j].timestamp

NetworkFailures == {"Timeout", "ConnectionError", "HTTPError"}

\* C4: at /weather-report every upstream network failure (timeout, connection
\* failure, non-2xx status) answers 502 and a payload format error answers 500.
C4_ErrorKindSeparation ==
    (resp.op = "weather_report" /\ resp.stage = "fetch") =>
        /\ resp.exc \in NetworkFailures => resp.status = 502
        /\ resp.exc \notin NetworkFailures => resp.status = 500

\* a payload arrived whose hourly arrays are missing, empty or of unequal length
Malformed(r) ==
    /\ r.op = "weather_report"
    /\ r.hourly # <<>>
    /\ \/ \E i \in 1..3 : r.hourly[i] = 0
       \/ \E i, j \in 1..3 : r.hourly[i] # r.hourly[j]

\* C5: a request whose payload is malformed ends in the fetch with a format
\* error, answers with an error, executes no row and leaves the store as it was.
C5_NoPartialIngestion ==
    [][Malformed(resp') =>
         /\ resp'.stage = "fetch" /\ resp'.exc = "ValueError"
         /\ resp'.status = 500 /\ resp'.body = "error"
         /\ resp'.executed = 0
         /\ db' = db]_vars

\* temperature_2m shorter than time, against a store that holds rows
C5_Witness ==
    /\ Malformed(resp) /\ resp.hourly[2] < resp.hourly[1] /\ resp.hourly[2] > 0
    /\ resp.status = 500
    /\ db # {}

\* C6: no step loses a stored key, the store holds one row per key, and a
\* successful ingest leaves exactly the keys stored before plus the batch's
\* keys, the batch's rows carrying the batch's values.
C6_NoKeyLost ==
    [][/\ Keys(db) \subseteq Keys(db')
       /\ Cardinality(db') = Cardinality(Keys(db'))
       /\ (resp'.op = "weather_report" /\ resp'.status = 200) =>
             /\ Keys(db') = Keys(db) \cup Keys(BatchRows(resp'.df))
             /\ BatchRows(resp'.df) \subseteq db']_vars

\* three hours re-ingested over three stored hours, one of them overlapping:
\* five rows
C6_Witness ==
    /\ Ingested /\ Len(resp.df) = 3 /\ resp.replaced = 1
    /\ Cardinality(db) = 5
    /\ BatchRows(resp.df) \subseteq db
    /\ \E r \in db : r.temperature_2m # resp.df[1].temperature_2m

\* C7: an export answers 400 with an error body and no file exactly when no
\* stored row is at or after now - 48h, and no export changes the store.
C7_EmptyWindowExport ==
    [][resp'.op \in ExportOps =>
         /\ db' = db
         /\ IF \A r \in db : Strptime(r.timestamp) < resp'.now - WindowHours
            THEN resp'.status = 400 /\ resp'.body = "error" /\ ~resp'.file
            ELSE resp'.status # 400]_vars

\* the PDF export refused over a store that holds only rows behind the cutoff
C7_Witness == resp.op = "export_pdf" /\ resp.status = 400 /\ db # {}

\* C8: under interleaved requests the store holds one row per key, every
\* row's (temperature, humidity) is the pair of one payload, and a committed
\* batch's rows are stored as the batch wrote them.
C8_NeverCorrupt ==
    /\ \A a, b \in db : Key(a) = Key(b) => a = b
    /\ \A r \in db : \E v \in Versions :
          r.temperature_2m = Temps[v] /\ r.relative_humidity_2m = Hums[v]
    /\ Ingested => BatchRows(resp.df) \subseteq db

\* a request has committed over a stored key while another request, fetched
\* with other readings for that key, is still to write it
C8_Witness ==
    /\ Ingested /\ resp.replaced >= 1
    /\ \E q \in Handlers :
          /\ req[q].pc = "upsert"
          /\ \E i \in 1..Len(req[q].df), j \in 1..Len(resp.df) :
                /\ ~RowRaises(req[q].df[i])
                /\ Key(ToDbRow(req[q].df[i])) = Key(ToDbRow(resp.df[j]))
                /\ req[q].df[i].temperature_2m # resp.df[j].temperature_2m

\* C9: no operation leaves its store connection open once it has ended.
C9_ConnectionsReleased == resp.conn # "open"

\* C10: a batch holding a row that cannot be written answers 500 from the
\* upsert and leaves the store as it was before the batch.
C10_WholeBatchFailure ==
    [][(resp'.op = "weather_report" /\ \E r \in Range(resp'.df) : RowRaises(r)) =>
         /\ resp'.stage = "upsert" /\ resp'.status = 500
         /\ db' = db]_vars

\* the second row of a batch failed after the first had been executed
C10_Witness ==
    /\ resp.op = "weather_report" /\ resp.stage = "upsert"
    /\ resp.executed >= 1 /\ resp.status = 500

====
